---- MODULE Spec2Model ----
(***************************************************************************)
(* Model of reservoir_memory_network/deep_rmn.py: the class                *)
(* DeepReservoirMemoryNetwork.  The model covers construction (layer       *)
(* sizing and the alphas check), the per-call state reset, the forward     *)
(* pass over layers and timesteps, the dataset-level feature assembly and  *)
(* the fit / score / predict life cycle of one instance.                   *)
(*                                                                         *)
(* Numeric tensor contents are abstracted to provenance records (which     *)
(* sample, which timestep, which layers, which width); shapes, indices,    *)
(* slices, flags and error paths are modelled as the code computes them.   *)
(***************************************************************************)
EXTENDS Integers, Sequences, FiniteSets, TLC

\* ------------------------------------------------------------------ bounds
MaxUnits == 3        \* total_*_units range over 1..MaxUnits
MaxLayers == 2       \* number_of_*_layers range over 1..MaxLayers
MaxInput == 1        \* input_units range over 1..MaxInput
MaxK == 1            \* initial_transients range over 0..MaxK
MaxN == 3            \* samples of a dataset range over 1..MaxN
MaxB == 2            \* DataLoader batch_size is 1 or MaxB (1..MaxB in SpecTargets)
MaxT == 2            \* sequence length ranges over 1..MaxT
MaxPasses == 1       \* forward passes between two resets in SpecForward
MaxBatches == 2      \* forward passes between two resets in SpecSteps
MaxD == 2            \* target width ranges over 1..MaxD in SpecTargets

VARIABLES
    phase,               \* "new" | "rejected" (constructor raised) | "built"
                         \* | "returned" (a public call just returned/raised)
    cfg,                 \* the constructor's arguments / configuration fields
    memory_layers,       \* self.memory_layers: sequence of [inp, units]
    non_linear_layers,   \* self.non_linear_layers; <<>> when never assigned
    readout,             \* self.readout
    scaler,              \* self._scaler
    trained,             \* self._trained
    memory_states,       \* self._memory_states: buffers; <<>> stands for None
    non_linear_states,   \* self._non_linear_states: buffers; <<>> for None
    hidden,              \* recurrent state held inside the cells
    fit_called,          \* whether fit was ever called on the instance
    call,                \* the last public call: operation, arguments, outcome
    trace,               \* the steps the last public call performed, in order
    states,              \* the feature matrix the last call assembled
    ys,                  \* the target matrix the last call assembled
    out,                 \* the 4-tuple returned by the last _forward
    pc,                  \* position of the running _forward in its loops
    reads                \* what each cell call of the running _forward read

vars == <<phase, cfg, memory_layers, non_linear_layers, readout, scaler,
          trained, memory_states, non_linear_states, hidden, fit_called, call,
          trace, states, ys, out, pc, reads>>

\* The position of a forward pass: the stack and layer whose loop over the
\* timesteps is running and the timestep (0-based) about to be stepped;
\* "return" once the loops are over, "idle" outside _forward.
At(stack, idx, t) == [at |-> stack, idx |-> idx, t |-> t]
Idle == At("idle", -1, -1)

\* Python's None, and an attribute that was never assigned.  Optional values
\* are records, so that they compare with None.
None == [tag |-> "None"]
Absent == [tag |-> "Absent"]

Max(a, b) == IF a >= b THEN a ELSE b
Min(a, b) == IF a <= b THEN a ELSE b

\* ------------------------------------------------------------ construction

\* The alphas argument: its Python type and, for sequences, its entries in
\* units of 1e-5.  The default is [1e-5, 1e-4, 1e-3, 1e-2, 1e-1, 1, 10, 100].
DefaultAlphas ==
    [tag |-> "list",
     vals |-> <<1, 10, 100, 1000, 10000, 100000, 1000000, 10000000>>]

\* alphas = None is replaced by the default list (deep_rmn.py:112-113).
AlphasOrDefault(alphas) == IF alphas = None THEN DefaultAlphas ELSE alphas

\* isinstance(alphas, list) after the default was substituted.
AlphasAccepted(alphas) == AlphasOrDefault(alphas).tag = "list"

\* int(total / layers) for positive operands, floored at 1.
PerLayerUnits(concatenate, total, layers) ==
    IF concatenate THEN Max(1, total \div layers) ELSE total

\* Width passed to the first cell of a stack.
FirstLayerUnits(concatenate, total, layers) ==
    IF concatenate
    THEN PerLayerUnits(concatenate, total, layers) + (total % layers)
    ELSE PerLayerUnits(concatenate, total, layers)

\* memory_kernel.shape[0] / non_linear_kernel.shape[0] of a cell built with
\* the given number of units.
KernelRows(units) == units

\* The list of memory cells: [inp |-> input width, units |-> hidden width].
RECURSIVE AppendMemoryLayers(_, _, _, _)
AppendMemoryLayers(layers, remaining, last_h, a) ==
    IF remaining = 0 THEN layers
    ELSE LET cell == [inp   |-> IF a.input_to_all_memory
                                THEN last_h + a.input_units ELSE last_h,
                      units |-> PerLayerUnits(a.concatenate_memory,
                                              a.total_memory_units,
                                              a.number_of_memory_layers)]
         IN AppendMemoryLayers(Append(layers, cell), remaining - 1,
                               KernelRows(cell.units), a)

BuildMemoryLayers(a) ==
    LET first == [inp   |-> a.input_units,
                  units |-> FirstLayerUnits(a.concatenate_memory,
                                            a.total_memory_units,
                                            a.number_of_memory_layers)]
    IN AppendMemoryLayers(<<first>>, a.number_of_memory_layers - 1,
                          first.units, a)

\* last_h_memory_size once the memory stack is complete.
LastMemorySize(a) ==
    LET ls == BuildMemoryLayers(a)
    IN IF Len(ls) = 1 THEN ls[1].units ELSE KernelRows(ls[Len(ls)].units)

\* The list of non-linear cells: [inp, units, mem |-> side-input width].
RECURSIVE AppendNonLinearLayers(_, _, _, _)
AppendNonLinearLayers(layers, remaining, last_h, a) ==
    IF remaining = 0 THEN layers
    ELSE LET cell == [inp   |-> IF a.input_to_all_non_linear
                                THEN last_h + a.input_units ELSE last_h,
                      units |-> PerLayerUnits(a.concatenate_non_linear,
                                              a.total_non_linear_units,
                                              a.number_of_non_linear_layers),
                      mem   |-> LastMemorySize(a)]
         IN AppendNonLinearLayers(Append(layers, cell), remaining - 1,
                                  KernelRows(cell.units), a)

BuildNonLinearLayers(a) ==
    LET first == [inp   |-> a.input_units,
                  units |-> FirstLayerUnits(a.concatenate_non_linear,
                                            a.total_non_linear_units,
                                            a.number_of_non_linear_layers),
                  mem   |-> LastMemorySize(a)]
    IN AppendNonLinearLayers(<<first>>, a.number_of_non_linear_layers - 1,
                             first.units, a)

\* self.readout as constructed: the estimator class, its alphas, not fitted.
NewReadout(a) ==
    [kind   |-> IF a.task = "classification" THEN "RidgeClassifierCV"
                ELSE "RidgeCV",
     alphas |-> AlphasOrDefault(a.alphas).vals,
     fitted |-> None]

\* self._concatenate_memory_input / self._concatenate_non_linear_input
ConcatenateMemoryInput(a) ==
    [idx \in 1..a.number_of_memory_layers |->
        a.input_to_all_memory /\ (idx - 1) > 0]

ConcatenateNonLinearInput(a) ==
    [idx \in 1..a.number_of_non_linear_layers |->
        a.input_to_all_non_linear /\ (idx - 1) > 0]

AlphasArgs ==
    { None,
      [tag |-> "number", vals |-> <<1>>],
      [tag |-> "tuple", vals |-> <<1, 2>>],
      [tag |-> "list", vals |-> <<>>],
      [tag |-> "list", vals |-> <<0>>],
      [tag |-> "list", vals |-> <<1, -1>>],
      [tag |-> "list", vals |-> <<1, 2>>] }

CtorArgs ==
    [task : {"classification", "regression"},
     input_units : 1..MaxInput,
     total_non_linear_units : 1..MaxUnits,
     total_memory_units : 1..MaxUnits,
     number_of_non_linear_layers : 1..MaxLayers,
     number_of_memory_layers : 1..MaxLayers,
     initial_transients : 0..MaxK,
     concatenate_non_linear : BOOLEAN,
     concatenate_memory : BOOLEAN,
     just_memory : BOOLEAN,
     input_to_all_non_linear : BOOLEAN,
     input_to_all_memory : BOOLEAN,
     alphas : AlphasArgs]

\* The recurrent state inside the cells: -1 as constructed, 0 after
\* reset_state, n > 0 after n forward passes since the last reset_state.
HiddenAsBuilt == -1

NoCall == [op |-> "none"]

\* The object before __init__ runs.
InitNew ==
    /\ phase = "new"
    /\ cfg = None
    /\ memory_layers = <<>>
    /\ non_linear_layers = <<>>
    /\ readout = Absent
    /\ scaler = None
    /\ trained = FALSE
    /\ memory_states = <<>>
    /\ non_linear_states = <<>>
    /\ hidden = HiddenAsBuilt
    /\ fit_called = FALSE
    /\ call = NoCall
    /\ trace = <<>>
    /\ states = None
    /\ ys = None
    /\ out = None
    /\ pc = Idle
    /\ reads = <<>>

\* The fields __init__ leaves behind for accepted arguments.
Constructed(a) ==
    /\ phase = "built"
    /\ cfg = a
    /\ memory_layers = BuildMemoryLayers(a)
    /\ non_linear_layers =
          IF a.just_memory THEN <<>> ELSE BuildNonLinearLayers(a)
    /\ readout = NewReadout(a)
    /\ scaler = None
    /\ trained = FALSE
    /\ memory_states = <<>>
    /\ non_linear_states = <<>>
    /\ hidden = HiddenAsBuilt
    /\ fit_called = FALSE
    /\ call = NoCall
    /\ trace = <<>>
    /\ states = None
    /\ ys = None
    /\ out = None
    /\ pc = Idle
    /\ reads = <<>>

\* __init__ with arguments a: raises ValueError('Invalid alphas.') before
\* any field is set, or builds both stacks and the readout.
Construct(a) ==
    /\ phase = "new"
    /\ IF ~AlphasAccepted(a.alphas)
       THEN /\ phase' = "rejected"
            /\ cfg' = a
            /\ UNCHANGED <<memory_layers, non_linear_layers, readout>>
       ELSE /\ phase' = "built"
            /\ cfg' = a
            /\ memory_layers' = BuildMemoryLayers(a)
            /\ non_linear_layers' =
                  IF a.just_memory THEN <<>> ELSE BuildNonLinearLayers(a)
            /\ readout' = NewReadout(a)
    /\ UNCHANGED <<scaler, trained, memory_states, non_linear_states,
                   hidden, fit_called, call, trace, states, ys, out, pc, reads>>

NextBuild == phase = "new" /\ \E a \in CtorArgs : Construct(a)

SpecBuild == InitNew /\ [][NextBuild]_vars

\* ------------------------------------------------------------- state reset

\* An element of a torch.empty / np.empty buffer that nothing wrote yet.
Unwritten == [tag |-> "Unwritten"]

\* torch.empty((batch_size, seq_len, width)): one buffer of a layer.
EmptyBuffer(batch_size, seq_len, width) ==
    [batch |-> batch_size, seq_len |-> seq_len, width |-> width,
     data  |-> [t \in 1..seq_len |-> Unwritten]]

\* The fresh buffers _reset_state allocates for a stack of layers.
EmptyBuffers(layers, batch_size, seq_len) ==
    [i \in 1..Len(layers) |->
        EmptyBuffer(batch_size, seq_len, KernelRows(layers[i].units))]

HiddenAfterReset == 0
HiddenAfterForward(h) == h + 1

\* ------------------------------------------------------------ forward pass

\* Where a cell's input comes from: the raw input x or a layer's buffer, at
\* timestep t (0-based, as in the code).
Source(stack, layer, t) == [stack |-> stack, layer |-> layer, t |-> t]
NoSource == [stack |-> "none", layer |-> -1, t |-> -1]

\* What the memory cell idx writes at timestep t.
MemoryEntry(a, idx, t, h) ==
    [stack |-> "memory", layer |-> idx, t |-> t, start |-> h,
     main  |-> IF idx = 0 THEN Source("x", -1, t)
               ELSE Source("memory", idx - 1, t),
     raw   |-> ConcatenateMemoryInput(a)[idx + 1],
     side  |-> NoSource]

\* What the non-linear cell idx writes at timestep t; only idx = 0 is called
\* with the last memory layer's state as second argument.
NonLinearEntry(a, idx, t, h) ==
    [stack |-> "non_linear", layer |-> idx, t |-> t, start |-> h,
     main  |-> IF idx = 0 THEN Source("x", -1, t)
               ELSE Source("non_linear", idx - 1, t),
     raw   |-> ConcatenateNonLinearInput(a)[idx + 1],
     side  |-> IF idx = 0
               THEN Source("memory", a.number_of_memory_layers - 1, t)
               ELSE NoSource]

\* for t in range(seq_len): layer_states[:, t, :].copy_(...), where
\* entries[t + 1] is what the cell returns at timestep t.
WriteTimesteps(buf, seq_len, entries) ==
    [buf EXCEPT !.data =
        [t \in 1..buf.seq_len |->
            IF t <= seq_len THEN entries[t] ELSE buf.data[t]]]

\* The memory buffers after the loop over the memory layers.
ForwardMemory(a, bufs, seq_len, h) ==
    [i \in 1..Len(bufs) |->
        WriteTimesteps(bufs[i], seq_len,
            [t \in 1..seq_len |-> MemoryEntry(a, i - 1, t - 1, h)])]

\* The non-linear buffers after the loop over the non-linear layers.
ForwardNonLinear(a, bufs, seq_len, h) ==
    [i \in 1..Len(bufs) |->
        WriteTimesteps(bufs[i], seq_len,
            [t \in 1..seq_len |-> NonLinearEntry(a, i - 1, t - 1, h)])]

\* torch.cat(buffers, dim=-1) when the stack concatenates, else buffers[-1]:
\* per timestep, the layer entries side by side and their total width.
RECURSIVE SumWidths(_)
SumWidths(bufs) ==
    IF bufs = <<>> THEN 0 ELSE Head(bufs).width + SumWidths(Tail(bufs))

StackStates(bufs, concatenate) ==
    LET last == bufs[Len(bufs)]
    IN [t \in 1..last.seq_len |->
          IF concatenate
          THEN [parts |-> [i \in 1..Len(bufs) |-> bufs[i].data[t]],
                width |-> SumWidths(bufs)]
          ELSE [parts |-> <<last.data[t]>>, width |-> last.width]]

\* A slice that removes k entries from the end instead of the start.
SliceFrom_DropsTail(seq, k) == SubSeq(seq, 1, Len(seq) - k)

\* Python's seq[k:] for any integer k.
SliceFrom(seq, k) ==
    LET n == Len(seq)
        start == IF k < 0 THEN Max(n + k, 0) ELSE Min(k, n)
    IN SubSeq(seq, start + 1, n)

\* Python's seq[-1] of a non-empty sequence.
LastOf(seq) == seq[Len(seq)]

\* The 4-tuple _forward returns, given the buffers it filled; the two
\* non-linear components are None for a memory-only network.
ForwardResult(a, mem_bufs, nl_bufs) ==
    LET mem_cat == StackStates(mem_bufs, a.concatenate_memory)
    IN IF ~a.just_memory
       THEN LET nl_cat == StackStates(nl_bufs, a.concatenate_non_linear)
            IN [nl_states  |-> SliceFrom(nl_cat, a.initial_transients),
                nl_last    |-> LastOf(nl_cat),
                mem_states |-> SliceFrom(mem_cat, a.initial_transients),
                mem_last   |-> LastOf(mem_cat)]
       ELSE [nl_states  |-> None,
             nl_last    |-> None,
             mem_states |-> SliceFrom(mem_cat, a.initial_transients),
             mem_last   |-> LastOf(mem_cat)]

\* Width of the last axis of what _forward returns for a stack.
StackWidth(bufs, concatenate) ==
    IF concatenate THEN SumWidths(bufs) ELSE bufs[Len(bufs)].width

\* state_size of _allocate: the width the feature matrix is allocated with.
StateSize(a) ==
    IF ~a.just_memory THEN a.total_non_linear_units ELSE a.total_memory_units

\* Width of the component of the _forward tuple that fit, score and predict
\* store into the feature matrix (index 3 or 2 when memory-only, else 1 or 0).
FeatureWidth(a, mem_bufs, nl_bufs) ==
    IF a.just_memory THEN StackWidth(mem_bufs, a.concatenate_memory)
    ELSE StackWidth(nl_bufs, a.concatenate_non_linear)

\* _reset_state(batch_size, seq_len, device): every layer's reset_state is
\* invoked and fresh buffers replace the old ones.
ResetState(batch_size, seq_len) ==
    /\ phase = "built"
    /\ hidden' = HiddenAfterReset
    /\ memory_states' = EmptyBuffers(memory_layers, batch_size, seq_len)
    /\ non_linear_states' =
          IF ~cfg.just_memory
          THEN EmptyBuffers(non_linear_layers, batch_size, seq_len)
          ELSE non_linear_states
    /\ UNCHANGED <<phase, cfg, memory_layers, non_linear_layers, readout,
                   scaler, trained, fit_called, call, trace, states, ys, out,
                   pc, reads>>

\* _forward(x) for an input of the shape the buffers were reset to.
Forward ==
    /\ phase = "built"
    /\ memory_states # <<>>
    /\ hidden < MaxPasses
    /\ LET seq_len == memory_states[1].seq_len
           mem == ForwardMemory(cfg, memory_states, seq_len, hidden)
           nl  == IF ~cfg.just_memory
                  THEN ForwardNonLinear(cfg, non_linear_states, seq_len, hidden)
                  ELSE non_linear_states
       IN /\ memory_states' = mem
          /\ non_linear_states' = nl
          /\ out' = ForwardResult(cfg, mem, nl)
    /\ hidden' = HiddenAfterForward(hidden)
    /\ UNCHANGED <<phase, cfg, memory_layers, non_linear_layers, readout,
                   scaler, trained, fit_called, call, trace, states, ys, pc,
                   reads>>

ForwardArgs ==
    { a \in CtorArgs : /\ a.task = "regression"
                       /\ a.input_units = 1
                       /\ a.alphas = None }

InitForward == \E a \in ForwardArgs : Constructed(a)

NextForward ==
    \/ \E t \in 1..MaxT : ResetState(MaxB, t)
    \/ Forward

SpecForward == InitForward /\ [][NextForward]_vars

\* ------------------------------------------- forward pass, one cell call
\* ------------------------------------------- at a time

\* x[:, t] of the batch the running forward pass was called with; h tells
\* the passes since the last reset apart.
RawInput(t, h) == [stack |-> "x", layer |-> -1, t |-> t, start |-> h]

\* An argument a cell call was not given.
NoInput == [stack |-> "none", layer |-> -1, t |-> -1, start |-> -1]

\* Where a value that was read came from.
SourceOf(v) ==
    IF v = Unwritten THEN Source("unwritten", -1, -1)
    ELSE IF v = NoInput THEN NoSource
    ELSE Source(v.stack, v.layer, v.t)

\* A slice that reads the following timestep of the layer before (the last
\* timestep again at the end of the sequence).
PreviousOutput_NextTimestep(bufs, idx, t, h) ==
    IF idx = 0 THEN RawInput(t, h)
    ELSE bufs[idx].data[Min(t + 2, bufs[idx].seq_len)]

\* last_memory_state[:, t] and last_non_linear_state[:, t]: x before the
\* first layer of a stack, afterwards the buffer of the layer before.
PreviousOutput(bufs, idx, t, h) ==
    IF idx = 0 THEN RawInput(t, h) ELSE bufs[idx].data[t + 1]

\* torch.cat([..., x[:, t]], dim=-1) for the layers flagged in
\* _concatenate_*_input.
ConcatenatedInput(flags, idx, t, h) ==
    IF flags[idx + 1] THEN RawInput(t, h) ELSE NoInput

\* A second argument taken from the first memory layer, for every
\* non-linear layer.
MemorySideInput_FirstLayer(mem_bufs, idx, t) == mem_bufs[1].data[t + 1]

\* The second argument of a non-linear cell call: last_memory_state[:, t, :]
\* (the buffer the memory loop ended on) for idx == 0, none otherwise.
MemorySideInput(mem_bufs, idx, t) ==
    IF idx = 0 THEN mem_bufs[Len(mem_bufs)].data[t + 1] ELSE NoInput

\* What a cell call writes into layer_states[:, t, :], given what it read.
CellEntry(stack, idx, t, h, main, raw, side) ==
    [stack |-> stack, layer |-> idx, t |-> t, start |-> h,
     main |-> SourceOf(main), raw |-> raw # NoInput, side |-> SourceOf(side)]

\* The record of a cell call: its place in the loops and the values read.
CellRead(stack, idx, t, main, raw, side) ==
    [stack |-> stack, layer |-> idx, t |-> t,
     main |-> main, raw |-> raw, side |-> side]

\* The loop position after timestep t of layer idx, for a stack of `layers`
\* layers; `after` is where control goes when the stack is done.
NextPosition(stack, idx, t, seq_len, layers, after) ==
    IF t + 1 < seq_len THEN At(stack, idx, t + 1)
    ELSE IF idx + 1 < layers THEN At(stack, idx + 1, 0)
    ELSE after

\* _forward is entered with an input of the shape the buffers were reset to.
EnterForward ==
    /\ phase = "built"
    /\ pc = Idle
    /\ memory_states # <<>>
    /\ hidden < MaxBatches
    /\ pc' = At("memory", 0, 0)
    /\ reads' = <<>>
    /\ UNCHANGED <<phase, cfg, memory_layers, non_linear_layers, readout,
                   scaler, trained, memory_states, non_linear_states, hidden,
                   fit_called, call, trace, states, ys, out>>

\* One iteration of `for t in range(seq_len)` in the memory loop.
StepMemory ==
    /\ phase = "built"
    /\ pc.at = "memory"
    /\ LET idx == pc.idx
           t == pc.t
           main == PreviousOutput(memory_states, idx, t, hidden)
           raw == ConcatenatedInput(ConcatenateMemoryInput(cfg), idx, t, hidden)
       IN /\ memory_states' =
                [memory_states EXCEPT ![idx + 1].data[t + 1] =
                    CellEntry("memory", idx, t, hidden, main, raw, NoInput)]
          /\ reads' = Append(reads,
                             CellRead("memory", idx, t, main, raw, NoInput))
          /\ pc' = NextPosition("memory", idx, t, memory_states[1].seq_len,
                                Len(memory_layers),
                                IF ~cfg.just_memory THEN At("non_linear", 0, 0)
                                ELSE At("return", -1, -1))
    /\ UNCHANGED <<phase, cfg, memory_layers, non_linear_layers, readout,
                   scaler, trained, non_linear_states, hidden, fit_called,
                   call, trace, states, ys, out>>

\* One iteration of `for t in range(seq_len)` in the non-linear loop.
StepNonLinear ==
    /\ phase = "built"
    /\ pc.at = "non_linear"
    /\ LET idx == pc.idx
           t == pc.t
           main == PreviousOutput(non_linear_states, idx, t, hidden)
           raw == ConcatenatedInput(ConcatenateNonLinearInput(cfg), idx, t,
                                    hidden)
           side == MemorySideInput(memory_states, idx, t)
       IN /\ non_linear_states' =
                [non_linear_states EXCEPT ![idx + 1].data[t + 1] =
                    CellEntry("non_linear", idx, t, hidden, main, raw, side)]
          /\ reads' = Append(reads,
                             CellRead("non_linear", idx, t, main, raw, side))
          /\ pc' = NextPosition("non_linear", idx, t,
                                memory_states[1].seq_len,
                                Len(non_linear_layers), At("return", -1, -1))
    /\ UNCHANGED <<phase, cfg, memory_layers, non_linear_layers, readout,
                   scaler, trained, memory_states, hidden, fit_called, call,
                   trace, states, ys, out>>

\* The concatenation, the slices and the return of _forward.
ReturnForward ==
    /\ phase = "built"
    /\ pc.at = "return"
    /\ out' = ForwardResult(cfg, memory_states, non_linear_states)
    /\ hidden' = HiddenAfterForward(hidden)
    /\ pc' = Idle
    /\ UNCHANGED <<phase, cfg, memory_layers, non_linear_layers, readout,
                   scaler, trained, memory_states, non_linear_states,
                   fit_called, call, trace, states, ys, reads>>

\* The networks stepped through: every layer count, flag and stack mode,
\* with one unit per layer and no transient.
StepArgs ==
    { a \in ForwardArgs :
        /\ a.total_memory_units = a.number_of_memory_layers
        /\ a.total_non_linear_units = a.number_of_non_linear_layers
        /\ a.initial_transients = 0 }

InitSteps == \E a \in StepArgs : Constructed(a)

NextSteps ==
    \/ pc = Idle /\ \E t \in 1..MaxT : ResetState(MaxB, t)
    \/ EnterForward
    \/ StepMemory
    \/ StepNonLinear
    \/ ReturnForward

SpecSteps == InitSteps /\ [][NextSteps]_vars

\* ---------------------------------------------------- dataset and batches

\* dataset.target: rank 2 is one vector of d components per sample, rank 3
\* one such vector per timestep of the sample.
Target(rank, d) == [rank |-> rank, d |-> d]

\* A DataLoader: n samples in iteration order, its batch_size and drop_last,
\* whether the dataset has the attributes `data` and `target`,
\* data.shape[1] and the shape of the target.  The datasets passed to the
\* public calls all have sequences of length MaxT and one target value per
\* sample, in batches of one or of MaxB; one of them lacks the attributes;
\* drop_last is set only where it changes the batches.
Datasets ==
    { d \in [n : 1..MaxN, batch_size : {1, MaxB}, drop_last : BOOLEAN,
             has_attrs : BOOLEAN, seq_len : {MaxT},
             target : {Target(2, 1)}] :
        /\ ~d.has_attrs => (d.n = 1 /\ d.batch_size = 1)
        /\ d.drop_last => (d.has_attrs /\ d.n % d.batch_size # 0) }

\* len(data)
NumBatches(ds) ==
    IF ds.drop_last THEN ds.n \div ds.batch_size
    ELSE (ds.n + ds.batch_size - 1) \div ds.batch_size

\* The samples (1-based positions in iteration order) of the j-th batch.
BatchSamples(ds, j) ==
    LET first == (j - 1) * ds.batch_size
        last  == Min(j * ds.batch_size, ds.n)
    IN [r \in 1..(last - first) |-> first + r]

\* Exceptions: the type (or, for the two usage errors, the message) and the
\* step of the call that raised.
NoError == [type |-> "none", stage |-> "none"]
Raised(type, stage) == [type |-> type, stage |-> stage]

\* An exception raised by a collaborator (device, cell, estimator) at a
\* step of the call; at = "none" for a run without such an exception.  In the
\* loop it is raised in the first batch; later batches raise when partial.
Faults(ds, standardize) ==
    {[at |-> "none", batch |-> 0]}
    \cup {[at |-> s, batch |-> 0] : s \in {"reset_state", "readout"}}
    \cup (IF standardize THEN {[at |-> "scaler", batch |-> 0]} ELSE {})
    \cup {[at |-> "forward", batch |-> j] : j \in 1..Min(1, NumBatches(ds))}

\* Whether the cells broadcast a one-sample batch is open only for a dataset
\* whose last batch is a partial batch of one sample.
CellChoices(ds) ==
    IF ~ds.drop_last /\ ds.batch_size > 1 /\ ds.n % ds.batch_size = 1
    THEN BOOLEAN ELSE {TRUE}

Event(ev, batch) == [ev |-> ev, batch |-> batch]

\* ------------------------------------------------------------- _allocate

\* np.empty for the feature matrix: num_batches * batch_size rows; a row is
\* held as the sequence of its cells along the time axis (one cell when
\* use_last_state).
EmptyStates(a, ds, use_last_state) ==
    LET cells == IF use_last_state THEN 1
                 ELSE ds.seq_len - a.initial_transients
    IN [r \in 1..(NumBatches(ds) * ds.batch_size) |->
          [t \in 1..cells |-> Unwritten]]

\* _allocate(data, use_last_state)
Allocate(a, ds, use_last_state) ==
    IF ~ds.has_attrs
    THEN [err |-> Raised("AttributeError", "allocate"), rows |-> <<>>]
    ELSE IF ~use_last_state /\ ds.seq_len - a.initial_transients < 0
    THEN [err |-> Raised("ValueError", "allocate"), rows |-> <<>>]
    ELSE [err |-> NoError, rows |-> EmptyStates(a, ds, use_last_state)]

\* One element of the target array: component comp of the target of a
\* sample, at timestep t for a sequence target (t = -1 otherwise).
TargetCell(sample, t, comp) == [sample |-> sample, t |-> t, comp |-> comp]

\* The sample whose data the loop stores in row r of the pre-allocated
\* arrays: the (r - idx)-th of its batch, or the only one of a one-sample
\* batch that numpy broadcasts over the slice.
RowSample(ds, r) ==
    LET j == ((r - 1) \div ds.batch_size) + 1
        batch == BatchSamples(ds, j)
    IN IF Len(batch) = ds.batch_size
       THEN batch[r - (j - 1) * ds.batch_size] ELSE batch[1]

\* ys of _allocate once the loop has run `ys[idx:idx + batch_size] = y` for
\* every batch: shape (rows, d) for a rank-2 target and (rows, T, d) for a
\* rank-3 one.
LoadedTargets(ds) ==
    [r \in 1..(NumBatches(ds) * ds.batch_size) |->
        IF ds.target.rank = 2
        THEN [c \in 1..ds.target.d |-> TargetCell(RowSample(ds, r), -1, c)]
        ELSE [t \in 1..ds.seq_len |->
                [c \in 1..ds.target.d |->
                    TargetCell(RowSample(ds, r), t - 1, c)]]]

\* np.concatenate(ys, axis=0) of a rank-3 array.
RECURSIVE ConcatenateTargets(_)
ConcatenateTargets(rows) ==
    IF rows = <<>> THEN <<>>
    ELSE Head(rows) \o ConcatenateTargets(Tail(rows))

\* np.repeat(ys, times, axis=0): every row `times` times in a row.
Repeat(rows, times) ==
    [r \in 1..(Len(rows) * times) |-> rows[((r - 1) \div times) + 1]]

\* ys.T of a rank-2 array with d columns.
Transpose(rows, d) ==
    [c \in 1..d |-> [r \in 1..Len(rows) |-> rows[r][c]]]

\* The targets fit and score hand on: as loaded when use_last_state, else
\* flattened next to the flattened features (state_rows rows).
FlattenTargets(loaded, target, use_last_state, state_rows) ==
    IF use_last_state THEN loaded
    ELSE IF target.rank = 3 THEN ConcatenateTargets(loaded)
    ELSE IF target.d = 1 THEN Repeat(loaded, state_rows \div Len(loaded))
    ELSE Transpose(loaded, target.d)

\* The target array a call hands to the estimator or the score function.
Targets(rows) == [tag |-> "ndarray", rows |-> rows]

\* The estimator and the score function reject features and targets with
\* different numbers of rows.
InconsistentLength(rows, targets) == Len(rows) # Len(targets)

\* ------------------------------------------------------- the batch loop

\* The component of the _forward tuple that is stored: index 3 or 1 (last
\* state) when use_last_state, index 2 or 0 (trajectory) otherwise; as the
\* sequence of its cells along the time axis.
SelectedOutput(a, result, use_last_state) ==
    IF use_last_state
    THEN IF a.just_memory THEN <<result.mem_last>> ELSE <<result.nl_last>>
    ELSE IF a.just_memory THEN result.mem_states ELSE result.nl_states

\* states[idx:idx + batch_size] = value, where value has the buffers' batch
\* dimension: row r of the slice holds the features of the r-th sample of the
\* batch, or of its only sample when a one-sample batch was broadcast.
AssignRows(rows, idx, batch_size, batch, cells) ==
    [r \in 1..Len(rows) |->
        IF r > idx /\ r <= idx + batch_size
        THEN LET sample == IF Len(batch) = batch_size
                           THEN batch[r - idx] ELSE batch[1]
             IN [t \in 1..Len(cells) |->
                    [sample |-> sample, feat |-> cells[t]]]
        ELSE rows[r]]

\* One iteration of `for x, y in data`: the forward pass of batch j and the
\* store of its features.  A batch smaller than the buffers' batch dimension
\* cannot be copied into them unless it has one sample, and then only if the
\* cells broadcast it (cell_broadcasts) instead of raising.  The store fails
\* when the width _forward returned is not the allocated one.
BatchStep(a, ds, use_last_state, acc, j, fault, cell_broadcasts) ==
    LET batch == BatchSamples(ds, j)
        tr    == Append(acc.trace, Event("forward", j))
    IN IF fault.at = "forward" /\ fault.batch = j
       THEN [acc EXCEPT !.err = Raised("RuntimeError", "forward"),
                        !.trace = tr]
       ELSE IF Len(batch) # ds.batch_size
               /\ (Len(batch) # 1 \/ ~cell_broadcasts)
       THEN [acc EXCEPT !.err = Raised("RuntimeError", "forward"),
                        !.trace = tr]
       ELSE LET mem == ForwardMemory(a, acc.mem, ds.seq_len, acc.hidden)
                nl  == IF ~a.just_memory
                       THEN ForwardNonLinear(a, acc.nl, ds.seq_len, acc.hidden)
                       ELSE acc.nl
                res == ForwardResult(a, mem, nl)
                done == [acc EXCEPT !.mem = mem, !.nl = nl, !.out = res,
                                    !.hidden = HiddenAfterForward(acc.hidden),
                                    !.trace = tr]
                width == FeatureWidth(a, mem, nl)
            IN IF width # StateSize(a) /\ width # 1
               THEN [done EXCEPT !.err = Raised("ValueError", "assign")]
               ELSE [done EXCEPT !.rows =
                        AssignRows(acc.rows, (j - 1) * ds.batch_size,
                                   ds.batch_size, batch,
                                   SelectedOutput(a, res, use_last_state))]

RECURSIVE BatchLoop(_, _, _, _, _, _, _)
BatchLoop(a, ds, use_last_state, acc, j, fault, cell_broadcasts) ==
    IF j > NumBatches(ds) \/ acc.err # NoError THEN acc
    ELSE BatchLoop(a, ds, use_last_state,
                   BatchStep(a, ds, use_last_state, acc, j, fault,
                             cell_broadcasts),
                   j + 1, fault, cell_broadcasts)

\* np.concatenate(states, axis=0): the time axis is folded into the rows.
RECURSIVE Concatenate(_)
Concatenate(rows) ==
    IF rows = <<>> THEN <<>>
    ELSE [t \in 1..Len(Head(rows)) |-> <<Head(rows)[t]>>]
         \o Concatenate(Tail(rows))

\* What fit, score and predict share: _allocate, _reset_state, the loop over
\* the batches and the flattening of trajectories.  cur holds the instance's
\* buffers and cell state when the call starts.
Assemble(a, mlayers, nlayers, cur, ds, use_last_state, fault, cell_broadcasts) ==
    LET al == Allocate(a, ds, use_last_state)
        t1 == <<Event("allocate", 0)>>
        t2 == Append(t1, Event("reset_state", 0))
        start == [err |-> NoError, rows |-> al.rows, trace |-> t2,
                  mem |-> EmptyBuffers(mlayers, ds.batch_size, ds.seq_len),
                  nl  |-> IF ~a.just_memory
                          THEN EmptyBuffers(nlayers, ds.batch_size, ds.seq_len)
                          ELSE cur.nl,
                  hidden |-> HiddenAfterReset, out |-> cur.out]
    IN IF al.err # NoError
       THEN [err |-> al.err, rows |-> <<>>, trace |-> t1, mem |-> cur.mem,
             nl |-> cur.nl, hidden |-> cur.hidden, out |-> cur.out]
       ELSE IF fault.at = "reset_state"
       THEN [err |-> Raised("RuntimeError", "reset_state"), rows |-> <<>>,
             trace |-> t2, mem |-> cur.mem, nl |-> cur.nl,
             hidden |-> cur.hidden, out |-> cur.out]
       ELSE LET looped == BatchLoop(a, ds, use_last_state, start, 1, fault,
                                    cell_broadcasts)
            IN IF looped.err # NoError \/ use_last_state THEN looped
               ELSE IF looped.rows = <<>>
               THEN [looped EXCEPT !.err = Raised("ValueError", "concatenate")]
               ELSE [looped EXCEPT !.rows = Concatenate(looped.rows)]

\* ------------------------------------------------- fit, score, predict

\* The feature matrix handed to the readout: its rows and the scaler that
\* transformed them (None when not standardized).
Matrix(rows, by) == [tag |-> "ndarray", rows |-> rows, scaled_by |-> by]

\* StandardScaler().fit(states).  A fitted object is told apart by the fit
\* call that fitted it: the last fit call made on the instance ("last_fit")
\* or an earlier one ("earlier_fit").
FittedScaler(by) == [tag |-> "StandardScaler", by |-> by]

\* The estimator after readout.fit(states, ys) on a matrix.
FittedReadout(by, X) == [tag |-> "fitted", by |-> by, scaled_by |-> X.scaled_by]

\* A fitted object as seen once another fit call has started.
Earlier(obj) ==
    IF obj = None THEN None
    ELSE IF obj.tag = "fitted"
    THEN [obj EXCEPT !.by = "earlier_fit",
                     !.scaled_by = IF @ = None THEN None
                                   ELSE [@ EXCEPT !.by = "earlier_fit"]]
    ELSE [obj EXCEPT !.by = "earlier_fit"]

\* StandardScaler.fit and the estimator's fit reject a matrix without rows.
EstimatorRaises(rows, fault, step) == fault.at = step \/ rows = <<>>

\* self._trained when fit returns or raises: set before the loop, cleared by
\* the except clause, which covers the loop and what follows it only.
TrainedAfterFit(was_trained, err) ==
    IF err = NoError THEN TRUE
    ELSE IF err.stage \in {"allocate", "reset_state"} THEN was_trained
    ELSE FALSE

\* self._scaler when fit returns or raises: assigned only when standardize is
\* set and StandardScaler().fit returned.
ScalerAfterFit(old, standardize, scaler_fitted) ==
    IF standardize /\ scaler_fitted THEN FittedScaler("last_fit")
    ELSE Earlier(old)

\* The two checks in the opposite order.
UsageError_StdFirst(is_trained, standardize, sc) ==
    IF standardize /\ sc = None THEN Raised("StdNotFitted", "check")
    ELSE IF ~is_trained THEN Raised("NotTrained", "check")
    ELSE NoError

\* The checks without the one on self._trained.
UsageError_NoTrainedCheck(is_trained, standardize, sc) ==
    IF standardize /\ sc = None THEN Raised("StdNotFitted", "check")
    ELSE NoError

\* The checks score and predict make before any work.
UsageError(is_trained, standardize, sc) ==
    IF ~is_trained THEN Raised("NotTrained", "check")
    ELSE IF standardize /\ sc = None THEN Raised("StdNotFitted", "check")
    ELSE NoError

Current ==
    [mem |-> memory_states, nl |-> non_linear_states, hidden |-> hidden,
     out |-> out]

\* What is known of a public call when it returns: its arguments, the value
\* self._trained had when it started, and the exception it raised.
CallRecord(op, ds, standardize, use_last_state, err) ==
    [op |-> op, ds |-> ds, standardize |-> standardize,
     use_last_state |-> use_last_state, was_trained |-> trained, err |-> err]

\* fit(data, device, standardize, use_last_state)
Fit(ds, standardize, use_last_state, fault, cell_broadcasts) ==
    /\ phase = "built"
    /\ \E asm \in {Assemble(cfg, memory_layers, non_linear_layers, Current, ds,
                            use_last_state, fault, cell_broadcasts)} :
       LET assembled == asm.err = NoError
           scaler_raises == assembled /\ standardize
                            /\ EstimatorRaises(asm.rows, fault, "scaler")
           scaler_fitted == assembled /\ standardize /\ ~scaler_raises
           targets == IF assembled
                      THEN FlattenTargets(LoadedTargets(ds), ds.target,
                                          use_last_state, Len(asm.rows))
                      ELSE <<>>
           readout_raises == assembled /\ ~scaler_raises
                             /\ (EstimatorRaises(asm.rows, fault, "readout")
                                 \/ InconsistentLength(asm.rows, targets))
           err == IF ~assembled THEN asm.err
                  ELSE IF scaler_raises THEN Raised("ValueError", "scaler")
                  ELSE IF readout_raises THEN Raised("ValueError", "readout")
                  ELSE NoError
           new_scaler == ScalerAfterFit(scaler, standardize, scaler_fitted)
           X == Matrix(asm.rows, IF standardize THEN new_scaler ELSE None)
       IN /\ fit_called' = TRUE
          /\ trained' = TrainedAfterFit(trained, err)
          /\ scaler' = new_scaler
          /\ readout' = [readout EXCEPT !.fitted =
                            IF err = NoError THEN FittedReadout("last_fit", X)
                            ELSE Earlier(@)]
          /\ memory_states' = asm.mem
          /\ non_linear_states' = asm.nl
          /\ hidden' = asm.hidden
          /\ out' = asm.out
          /\ states' = IF err = NoError THEN X ELSE None
          /\ ys' = IF assembled THEN Targets(targets) ELSE None
          /\ trace' = asm.trace
                      \o (IF assembled /\ standardize
                          THEN <<Event("scaler.fit", 0)>> ELSE <<>>)
                      \o (IF assembled /\ ~scaler_raises
                          THEN <<Event("readout.fit", 0)>> ELSE <<>>)
          /\ call' = CallRecord("fit", ds, standardize, use_last_state, err)
    /\ phase' = "returned"
    /\ UNCHANGED <<cfg, memory_layers, non_linear_layers, pc, reads>>

\* The body score and predict share; op tells them apart.
Infer(op, ds, standardize, use_last_state, fault, cell_broadcasts) ==
    /\ phase = "built"
    /\ LET usage == UsageError(trained, standardize, scaler)
       IN IF usage # NoError
          THEN /\ call' = CallRecord(op, ds, standardize, use_last_state,
                                     usage)
               /\ trace' = <<>>
               /\ states' = None
               /\ ys' = None
               /\ UNCHANGED <<memory_states, non_linear_states, hidden, out>>
          ELSE \E asm \in {Assemble(cfg, memory_layers, non_linear_layers,
                                      Current, ds, use_last_state, fault,
                                      cell_broadcasts)} :
               LET assembled == asm.err = NoError
                   scored == assembled /\ op = "score"
                   targets == IF scored
                              THEN FlattenTargets(LoadedTargets(ds), ds.target,
                                                  use_last_state,
                                                  Len(asm.rows))
                              ELSE <<>>
                   predict_raises ==
                       assembled /\ (EstimatorRaises(asm.rows, fault, "readout")
                                     \/ readout.fitted = None
                                     \/ (scored /\ InconsistentLength(asm.rows,
                                                                      targets)))
                   err == IF ~assembled THEN asm.err
                          ELSE IF predict_raises
                          THEN Raised("ValueError", "readout")
                          ELSE NoError
               IN /\ call' = CallRecord(op, ds, standardize, use_last_state,
                                        err)
                  /\ trace' = asm.trace
                              \o (IF assembled /\ standardize
                                  THEN <<Event("scaler.transform", 0)>>
                                  ELSE <<>>)
                              \o (IF assembled
                                  THEN <<Event("readout.predict", 0)>>
                                  ELSE <<>>)
                  /\ states' = IF err = NoError
                               THEN Matrix(asm.rows,
                                           IF standardize THEN scaler ELSE None)
                               ELSE None
                  /\ ys' = IF scored THEN Targets(targets) ELSE None
                  /\ memory_states' = asm.mem
                  /\ non_linear_states' = asm.nl
                  /\ hidden' = asm.hidden
                  /\ out' = asm.out
    /\ phase' = "returned"
    /\ UNCHANGED <<cfg, memory_layers, non_linear_layers, readout,
                   scaler, trained, fit_called, pc, reads>>

\* The caller takes the result or the exception; the call's locals (the
\* feature matrix, the _forward tuple) are released.
Return ==
    /\ phase = "returned"
    /\ phase' = "built"
    /\ call' = NoCall
    /\ trace' = <<>>
    /\ states' = None
    /\ ys' = None
    /\ out' = None
    /\ UNCHANGED <<cfg, memory_layers, non_linear_layers, readout, scaler,
                   trained, memory_states, non_linear_states, hidden,
                   fit_called, pc, reads>>

\* score(data, score_function, device, standardize, use_last_state)
Score(ds, standardize, use_last_state, fault, cell_broadcasts) ==
    Infer("score", ds, standardize, use_last_state, fault, cell_broadcasts)

\* predict(data, device, standardize, use_last_state)
Predict(ds, standardize, use_last_state, fault, cell_broadcasts) ==
    Infer("predict", ds, standardize, use_last_state, fault, cell_broadcasts)

\* The stack shapes (concatenate, total units, layers) of the instances whose
\* life cycle is explored: plain, evenly split, and fewer units than layers;
\* each with no transient and with the longest one.
LifeShapes == {<<FALSE, 1, 1>>, <<TRUE, 2, 2>>, <<TRUE, 1, 2>>}

LifeArgs ==
    { [task |-> "regression", input_units |-> 1,
       total_non_linear_units |-> sh[2], total_memory_units |-> sh[2],
       number_of_non_linear_layers |-> sh[3],
       number_of_memory_layers |-> sh[3],
       initial_transients |-> k,
       concatenate_non_linear |-> sh[1], concatenate_memory |-> sh[1],
       just_memory |-> jm,
       input_to_all_non_linear |-> FALSE, input_to_all_memory |-> FALSE,
       alphas |-> None] :
        sh \in LifeShapes, k \in {0, MaxK}, jm \in BOOLEAN }

Init == \E a \in LifeArgs : Constructed(a)

Calls ==
    /\ phase = "built"
    /\ \E ds \in Datasets, standardize \in BOOLEAN, use_last_state \in BOOLEAN :
         \E fault \in Faults(ds, standardize), cell_broadcasts \in CellChoices(ds) :
            \/ Fit(ds, standardize, use_last_state, fault, cell_broadcasts)
            \/ Score(ds, standardize, use_last_state, fault, cell_broadcasts)
            \/ Predict(ds, standardize, use_last_state, fault, cell_broadcasts)

Next == Calls \/ Return

Spec == Init /\ [][Next]_vars

\* ------------------------------------------------ fit and score on targets
\* ------------------------------------------------ of every shape

\* Datasets whose target is a vector (rank 2) or a sequence of vectors (rank
\* 3) of 1..MaxD components; every batch is full or has one sample.
TargetDatasets ==
    { d \in [n : 1..MaxN, batch_size : 1..MaxB, drop_last : {FALSE},
             has_attrs : {TRUE}, seq_len : {MaxT},
             target : {Target(rank, w) : rank \in {2, 3}, w \in 1..MaxD}] :
        d.n % d.batch_size \in {0, 1} }

NoFault == [at |-> "none", batch |-> 0]

FitTargets ==
    \E ds \in TargetDatasets, use_last_state \in BOOLEAN :
       \E cell_broadcasts \in CellChoices(ds) :
          Fit(ds, FALSE, use_last_state, NoFault, cell_broadcasts)

ScoreTargets ==
    \E ds \in TargetDatasets, use_last_state \in BOOLEAN :
       \E cell_broadcasts \in CellChoices(ds) :
          Score(ds, FALSE, use_last_state, NoFault, cell_broadcasts)

NextTargets == FitTargets \/ ScoreTargets \/ Return

SpecTargets == Init /\ [][NextTargets]_vars

\* ------------------------------------------------- claims on construction

\* Sum of the hidden widths of a stack's layers.
RECURSIVE SumUnits(_)
SumUnits(layers) ==
    IF layers = <<>> THEN 0
    ELSE KernelRows(Head(layers).units) + SumUnits(Tail(layers))

\* C6: in concatenate mode the hidden widths of a stack's layers sum to the
\* stack's configured total unit count, for every total >= 1 and every layer
\* count >= 1, totals smaller than the layer count included.
C6_WidthsSumToTotal ==
    phase = "built" =>
        /\ cfg.concatenate_memory =>
              SumUnits(memory_layers) = cfg.total_memory_units
        /\ (cfg.concatenate_non_linear /\ ~cfg.just_memory) =>
              SumUnits(non_linear_layers) = cfg.total_non_linear_units

\* C7: the width the feature matrix is allocated with equals the last-axis
\* width of what the forward pass returns for the feature stack, and a
\* memory-only network neither builds nor references the non-linear stack.
C7_AllocatedWidthIsForwardWidth ==
    (phase = "built" /\ hidden >= 1) =>
        /\ StateSize(cfg) = FeatureWidth(cfg, memory_states, non_linear_states)
        /\ cfg.just_memory =>
              /\ non_linear_layers = <<>>
              /\ non_linear_states = <<>>
              /\ out.nl_states = None
              /\ out.nl_last = None

\* An alphas argument that is a non-empty ordered sequence of positive numbers.
IsPositiveSequence(alphas) ==
    /\ alphas.tag \in {"list", "tuple"}
    /\ Len(alphas.vals) >= 1
    /\ \A i \in 1..Len(alphas.vals) : alphas.vals[i] > 0

\* C9: the constructor rejects exactly the alphas arguments that are not a
\* non-empty ordered sequence of positive numbers, and a rejection happens
\* before any layer is constructed.
C9_AlphasValidated ==
    (phase # "new" /\ cfg.alphas # None) =>
        /\ (phase = "rejected") <=> ~IsPositiveSequence(cfg.alphas)
        /\ (phase = "rejected") =>
              (memory_layers = <<>> /\ non_linear_layers = <<>>)

\* ------------------------------------------------ claims on the forward pass

\* The 0-based timesteps a returned trajectory holds, one per entry; -1 for
\* a part that no step of the pass wrote.
PartTimes(value) ==
    [i \in 1..Len(value.parts) |->
        IF value.parts[i] = Unwritten THEN -1 ELSE value.parts[i].t]

\* Every part of the value is the state written at timestep t.
IsStateAt(value, t) ==
    \A i \in 1..Len(value.parts) : PartTimes(value)[i] = t

\* A trajectory output holds exactly the timesteps k..T-1 in order.
IsTrimmedTrajectory(traj, k, T) ==
    /\ Len(traj) = T - k
    /\ \A i \in 1..Len(traj) : IsStateAt(traj[i], k + i - 1)

\* What the same pass would have returned with initial_transients = 0.
UntrimmedResult ==
    ForwardResult([cfg EXCEPT !.initial_transients = 0],
                  memory_states, non_linear_states)

\* C8: with 0 <= k <= T the trajectory outputs are exactly the timesteps
\* k..T-1 in order, and the last-timestep outputs are the state at T-1, the
\* same as with k = 0.
C8_TransientDiscard ==
    (phase = "built" /\ hidden >= 1
        /\ cfg.initial_transients <= memory_states[1].seq_len) =>
        LET k == cfg.initial_transients
            T == memory_states[1].seq_len
        IN /\ IsTrimmedTrajectory(out.mem_states, k, T)
           /\ IsStateAt(out.mem_last, T - 1)
           /\ out.mem_last = UntrimmedResult.mem_last
           /\ ~cfg.just_memory =>
                 /\ IsTrimmedTrajectory(out.nl_states, k, T)
                 /\ IsStateAt(out.nl_last, T - 1)
                 /\ out.nl_last = UntrimmedResult.nl_last

\* A pass with 1 <= k < T on a two-stack network has returned.
C8_Witness ==
    /\ phase = "built" /\ hidden >= 1 /\ ~cfg.just_memory
    /\ cfg.initial_transients = 1
    /\ memory_states[1].seq_len = 2
    /\ Len(out.nl_states) = 1

\* -------------------------------------------------- claims on the calls

Inference == {"score", "predict"}

\* C1: whenever fit raises, at whatever step, self._trained is False when the
\* exception reaches the caller (so that the next score or predict raises the
\* 'not trained' error).
C1_FailedFitUntrains ==
    (phase = "returned" /\ call.op = "fit" /\ call.err # NoError) =>
        trained = FALSE

\* C2: score or predict on an instance whose trained flag is False raises the
\* 'not trained' error at once: nothing is allocated, reset or computed, and
\* the trained flag, the standardizer, the readout and the buffers are as
\* before.
C2_UntrainedInferenceDoesNothing ==
    [][(phase = "built" /\ ~trained /\ phase' = "returned"
            /\ call'.op \in Inference) =>
          /\ call'.err = Raised("NotTrained", "check")
          /\ trace' = <<>>
          /\ states' = None
          /\ UNCHANGED <<trained, scaler, readout, memory_states,
                         non_linear_states, hidden, fit_called>>]_vars

\* score was refused as 'not trained' on an instance whose buffers an
\* earlier, failed fit had allocated.
C2_Witness ==
    /\ phase = "returned" /\ call.op = "score"
    /\ call.err = Raised("NotTrained", "check")
    /\ fit_called /\ memory_states # <<>> /\ ~trained

\* C3 as claimed: predict with standardize=True on an instance on which fit
\* was never called raises the 'standardization not fitted' error.
C3_StdPredictBeforeFit ==
    (phase = "returned" /\ ~fit_called /\ call.op = "predict"
        /\ call.standardize) =>
        call.err.type = "StdNotFitted"

\* C3 as amended: score or predict with standardize=True raises the 'not
\* trained' error when the trained flag is False (so also when fit was never
\* called), and the 'standardization not fitted' error when the flag is True
\* and no standardizer is held.
C3_StdInferenceErrors ==
    (phase = "returned" /\ call.op \in Inference /\ call.standardize) =>
        /\ ~call.was_trained => call.err = Raised("NotTrained", "check")
        /\ (call.was_trained /\ scaler = None) =>
              call.err = Raised("StdNotFitted", "check")

\* predict with standardize=True has returned on a never-fitted instance.
C3_Witness ==
    /\ phase = "returned" /\ ~fit_called /\ call.op = "predict"
    /\ call.standardize /\ call.err.type = "NotTrained"

\* What a fresh instance holds after a successful fit with the given
\* standardize flag: objects fitted by that fit, and no standardizer without
\* the flag.
FreshScaler(standardize) ==
    IF standardize THEN FittedScaler("last_fit") ELSE None

FreshFitted(standardize) ==
    [tag |-> "fitted", by |-> "last_fit",
     scaled_by |-> FreshScaler(standardize)]

\* C4: after a successful fit on an instance that an earlier fit had trained,
\* the standardizer and the readout are those a fresh instance would hold
\* after this fit alone.
C4_SecondFitLikeFresh ==
    (phase = "returned" /\ call.op = "fit" /\ call.err = NoError
        /\ call.was_trained) =>
        /\ scaler = FreshScaler(call.standardize)
        /\ readout.fitted = FreshFitted(call.standardize)

\* Cells of one row of the assembled matrix: 1, or the retained timesteps.
CellsPerSample(c) ==
    IF c.use_last_state THEN 1 ELSE c.ds.seq_len - cfg.initial_transients

\* C5: the assembled feature matrix has N rows (N * (T - k) when trajectories
\* are used), row i holds the features of the i-th sample of the dataset, and
\* no row is left unwritten.
C5_RowsAreSamples ==
    (phase = "returned" /\ call.err = NoError) =>
        LET per == CellsPerSample(call)
        IN /\ Len(states.rows) = call.ds.n * per
           /\ \A r \in 1..Len(states.rows) :
                 /\ Len(states.rows[r]) = 1
                 /\ states.rows[r][1] # Unwritten
                 /\ states.rows[r][1].sample = ((r - 1) \div per) + 1

\* C10: within one call every batch's forward pass is directly preceded by a
\* state reset, so that every stored feature comes from a recurrence started
\* from the reset state.
C10_ResetBeforeEveryBatch ==
    (phase = "returned" /\ call.err = NoError) =>
        /\ \A i \in 1..Len(trace) :
              trace[i].ev = "forward" =>
                 (i > 1 /\ trace[i - 1].ev = "reset_state")
        /\ \A r \in 1..Len(states.rows) :
              \A c \in 1..Len(states.rows[r]) :
                 \A q \in 1..Len(states.rows[r][c].feat.parts) :
                    states.rows[r][c].feat.parts[q].start = HiddenAfterReset

\* ------------------------------------------ claims on the remainder layer

\* The hidden widths of a stack of L >= 2 layers as the remainder rule words
\* them: floor(total / L) everywhere but the last layer, which adds
\* total mod L.
RemainderOnLast(layers, total) ==
    LET L == Len(layers)
    IN \A i \in 1..L :
          KernelRows(layers[i].units) =
             IF i = L THEN (total \div L) + (total % L) ELSE total \div L

\* C14: in concatenate mode every layer but the last of a stack of L >= 2
\* layers has hidden width floor(total / L) and the last one has
\* floor(total / L) + (total mod L); the first layer carries no remainder.
\* Stated for totals of at least L, where floor(total / L) is a width.
C14_RemainderOnLastLayer ==
    phase = "built" =>
        /\ (cfg.concatenate_memory /\ Len(memory_layers) >= 2
               /\ cfg.total_memory_units >= Len(memory_layers)) =>
              RemainderOnLast(memory_layers, cfg.total_memory_units)
        /\ (cfg.concatenate_non_linear /\ ~cfg.just_memory
               /\ Len(non_linear_layers) >= 2
               /\ cfg.total_non_linear_units >= Len(non_linear_layers)) =>
              RemainderOnLast(non_linear_layers, cfg.total_non_linear_units)

\* -------------------------------------- claims on the order of cell calls

\* The cell calls of the running forward pass made so far, for one layer.
CallsOf(stack, idx) ==
    { i \in 1..Len(reads) : reads[i].stack = stack /\ reads[i].layer = idx }

\* The value is what layer idx of the stack wrote for timestep t in the
\* forward pass h.
IsOutputOf(v, stack, idx, t, h) ==
    /\ v # Unwritten
    /\ v # NoInput
    /\ v.stack = stack /\ v.layer = idx /\ v.t = t /\ v.start = h

\* The input-to-all flag of a stack.
InputToAll(stack) ==
    IF stack = "memory" THEN cfg.input_to_all_memory
    ELSE cfg.input_to_all_non_linear

\* The buffers of a stack.
BuffersOf(stack) ==
    IF stack = "memory" THEN memory_states ELSE non_linear_states

\* At the end of a forward pass the buffers hold what the pass as a whole is
\* taken to write in the other specifications.
StepsAgreeWithForward ==
    pc.at = "return" =>
        /\ memory_states =
              ForwardMemory(cfg, memory_states, memory_states[1].seq_len,
                            hidden)
        /\ ~cfg.just_memory =>
              non_linear_states =
                 ForwardNonLinear(cfg, non_linear_states,
                                  memory_states[1].seq_len, hidden)

\* C11: in a forward pass the main input of layer k >= 1 at timestep t is
\* what layer k-1 of the same stack wrote for t earlier in this pass; layer 0
\* reads the raw input at t; a layer's timesteps are stepped in order, each
\* entry written once; the raw input is concatenated exactly for the layers
\* of depth >= 1 of a stack whose input-to-all flag is set.
C11_FeedForwardSameTimestep ==
    pc # Idle =>
        /\ \A i \in 1..Len(reads) :
              LET r == reads[i]
              IN /\ r.layer = 0 => r.main = RawInput(r.t, hidden)
                 /\ r.layer >= 1 =>
                       /\ IsOutputOf(r.main, r.stack, r.layer - 1, r.t, hidden)
                       /\ \E j \in 1..(i - 1) :
                             /\ reads[j].stack = r.stack
                             /\ reads[j].layer = r.layer - 1
                             /\ reads[j].t = r.t
                 /\ (r.raw # NoInput) <=> (r.layer >= 1 /\ InputToAll(r.stack))
                 /\ r.raw # NoInput => r.raw = RawInput(r.t, hidden)
                 /\ Cardinality({j \in CallsOf(r.stack, r.layer) : j < i})
                       = r.t
                 /\ IsOutputOf(BuffersOf(r.stack)[r.layer + 1].data[r.t + 1],
                               r.stack, r.layer, r.t, hidden)
        /\ pc.at = "return" =>
              \A stack \in {"memory", "non_linear"} :
                 \A l \in 1..Len(BuffersOf(stack)) :
                    (stack = "memory" \/ ~cfg.just_memory) =>
                       Cardinality(CallsOf(stack, l - 1)) =
                          memory_states[1].seq_len

\* A second pass over the same buffers has ended: two layers per stack, two
\* timesteps, raw input concatenated in the memory stack.
C11_Witness ==
    /\ pc.at = "return" /\ hidden >= 1
    /\ Len(memory_layers) >= 2 /\ cfg.input_to_all_memory
    /\ ~cfg.just_memory /\ Len(non_linear_layers) >= 2
    /\ memory_states[1].seq_len >= 2

\* C12: in a network that is not memory-only every memory layer has stepped
\* all its timesteps before the first non-linear cell call; non-linear layer
\* 0 at timestep t is given the deepest memory layer's state at t (also when
\* the memory stack concatenates); deeper non-linear layers are given no
\* memory input.
C12_MemoryBeforeNonLinear ==
    pc # Idle =>
        \A i \in 1..Len(reads) :
           LET r == reads[i]
               Lm == Len(memory_layers)
               T == memory_states[1].seq_len
           IN /\ r.stack = "memory" => r.side = NoInput
              /\ r.stack = "non_linear" =>
                    /\ ~cfg.just_memory
                    /\ pc.at # "memory"
                    /\ i > Lm * T
                    /\ \A j \in 1..(Lm * T) : reads[j].stack = "memory"
                    /\ \A l \in 1..Lm : Cardinality(CallsOf("memory", l - 1)) = T
                    /\ r.layer = 0 =>
                          /\ r.side = memory_states[Lm].data[r.t + 1]
                          /\ IsOutputOf(r.side, "memory", Lm - 1, r.t, hidden)
                    /\ r.layer >= 1 => r.side = NoInput

\* A second pass has ended in a network with two memory layers in
\* concatenate mode and two non-linear layers.
C12_Witness ==
    /\ pc.at = "return" /\ hidden >= 1
    /\ ~cfg.just_memory /\ cfg.concatenate_memory
    /\ Len(memory_layers) >= 2 /\ Len(non_linear_layers) >= 2
    /\ memory_states[1].seq_len >= 2
    /\ \E i \in 1..Len(reads) :
          reads[i].stack = "non_linear" /\ reads[i].layer = 1

\* ------------------------------------------------------ claims on targets

\* The sample and the timestep (0-based) of row r of the feature matrix a
\* call flattened: the rows of the pre-allocated array in order, each
\* unfolded into its retained timesteps.
FeatureSample(c, r) == RowSample(c.ds, ((r - 1) \div CellsPerSample(c)) + 1)
FeatureTimestep(c, r) ==
    cfg.initial_transients + ((r - 1) % CellsPerSample(c))

\* The flattened feature matrix is laid out as FeatureSample and
\* FeatureTimestep say.
FeaturesAsFlattened ==
    (phase = "returned" /\ ~call.use_last_state /\ states # None) =>
        /\ Len(states.rows) =
              NumBatches(call.ds) * call.ds.batch_size * CellsPerSample(call)
        /\ \A r \in 1..Len(states.rows) :
              /\ states.rows[r][1].sample = FeatureSample(call, r)
              /\ states.rows[r][1].feat.parts[1].t = FeatureTimestep(call, r)

\* C13: in fit and score with use_last_state=False the flattened targets
\* have as many rows as the flattened features, and row r of the targets is
\* the d-component target of the sample (for a sequence target, of the
\* sample and timestep) of row r of the features.
C13_TargetsAlignedWithFeatures ==
    (phase = "returned" /\ call.op \in {"fit", "score"}
        /\ ~call.use_last_state /\ ys # None) =>
        /\ Len(ys.rows) =
              NumBatches(call.ds) * call.ds.batch_size * CellsPerSample(call)
        /\ \A r \in 1..Len(ys.rows) :
              /\ Len(ys.rows[r]) = call.ds.target.d
              /\ \A c \in 1..Len(ys.rows[r]) :
                    /\ ys.rows[r][c].comp = c
                    /\ ys.rows[r][c].sample = FeatureSample(call, r)
                    /\ call.ds.target.rank = 3 =>
                          ys.rows[r][c].t = FeatureTimestep(call, r)

====
